---- MODULE Spec2Model ----
(***************************************************************************)
(* The settings panel of the popup, src/popup/Settings.tsx: the Settings   *)
(* form controller (state, autosave on blur, explicit submit) and the      *)
(* HotkeyRecorder widget (recording state machine, emitted values, the     *)
(* document-level click listener).                                         *)
(*                                                                         *)
(* One action is one event-loop task: a DOM event handler or the           *)
(* continuation of an awaited promise, run together with the re-renders    *)
(* and effects it causes.  React semantics assumed: state updates made in  *)
(* one task are batched into one render, and synthetic events are          *)
(* delegated at the root container (React 17 and later), so that           *)
(* e.stopPropagation() keeps a click from reaching document listeners.     *)
(***************************************************************************)
EXTENDS Integers, Sequences, FiniteSets, TLC

VARIABLES
    values,         \* Settings: useState values (line 235)
    prevValues,     \* Settings: useState prevValues (line 243)
    loading,        \* Settings: useState loading (line 234)
    store,          \* the form's own field store (useForm, line 245)
    onBlurFn,       \* what the memoized onBlur closes over (line 274-279)
    loadPending,    \* the getSettings() promise of line 253 is unsettled
    frames,         \* async functions suspended at `await utils.setSettings`
    isRecording,    \* HotkeyRecorder: useRecordHotkeys().isRecording
    keys,           \* HotkeyRecorder: useRecordHotkeys() keys, in insertion order
    hotKeys,        \* HotkeyRecorder: useState hotKeys (line 159)
    propValue,      \* HotkeyRecorder: props.value
    onBlurProp,     \* HotkeyRecorder: identity of props.onBlur
    docListeners,   \* click listeners registered on document (line 194)
    mounted,        \* HotkeyRecorder is mounted
    suppliedMeta,   \* some value supplied from outside held a "meta" segment
    lastOp,         \* the task that ran last
    out             \* the calls that task made on the component's collaborators

vars == <<values, prevValues, loading, store, onBlurFn, loadPending, frames,
          isRecording, keys, hotKeys, propValue, onBlurProp, docListeners,
          mounted, suppliedMeta, lastOp, out>>

settingsVars == <<values, prevValues, loading, store, onBlurFn, loadPending, frames>>
recorderVars == <<isRecording, keys, hotKeys, propValue, onBlurProp, docListeners,
                  mounted, suppliedMeta>>

----------------------------------------------------------------------------
(* Bounds *)

\* Async functions that may be suspended at setSettings at the same time.
MaxFrames == 1

\* Distinct keys the recorder captures in one recording session.
MaxKeys == 2

----------------------------------------------------------------------------
(* Strings that the code takes apart are sequences of atoms: an atom is    *)
(* a separator character or an indivisible run of other characters.        *)

EmptyStr == <<>>

RECURSIVE Join(_, _)
\* Array.prototype.join: the strings of ks with the string sep between
\* neighbours.
Join(ks, sep) ==
    IF ks = <<>> THEN EmptyStr
    ELSE IF Len(ks) = 1 THEN ks[1]
    ELSE ks[1] \o sep \o Join(Tail(ks), sep)

\* String.prototype.replace(/a/g, b)
ReplaceAll(s, a, b) == [i \in 1..Len(s) |-> IF s[i] = a THEN b ELSE s[i]]

RECURSIVE Split(_, _)
\* String.prototype.split: the pieces of s between occurrences of sep (one
\* empty piece for the empty string).
Split(s, sep) ==
    IF \A i \in 1..Len(s) : s[i] # sep THEN <<s>>
    ELSE LET i == CHOOSE j \in 1..Len(s) :
                      s[j] = sep /\ \A m \in 1..(j - 1) : s[m] # sep
         IN <<SubSeq(s, 1, i - 1)>> \o Split(SubSeq(s, i + 1, Len(s)), sep)

RECURSIVE TrimStart(_)
TrimStart(s) == IF s # <<>> /\ s[1] = " " THEN TrimStart(Tail(s)) ELSE s

RECURSIVE TrimEnd(_)
TrimEnd(s) ==
    IF s # <<>> /\ s[Len(s)] = " " THEN TrimEnd(SubSeq(s, 1, Len(s) - 1)) ELSE s

\* String.prototype.trim
Trim(s) == TrimEnd(TrimStart(s))

\* String.prototype.toLowerCase ("Meta" is the one atom with an upper case letter)
ToLowerCase(s) == [i \in 1..Len(s) |-> IF s[i] = "Meta" THEN "meta" ELSE s[i]]

----------------------------------------------------------------------------
(* Settings record *)

ApiKeyValues == {"", "sk-a", "sk-b"}
ApiURLValues == {"", "https://api.openai.com"}

FieldValues(f) ==
    CASE f = "apiKeys" -> ApiKeyValues
      [] f = "apiURL" -> ApiURLValues
      [] f = "autoTranslate" -> BOOLEAN
      [] f = "defaultTranslateMode" -> {"translate"}
      [] f = "defaultTargetLanguage" -> {"zh-Hans"}
      [] f = "hotkey" -> {EmptyStr}

ISettings ==
    [apiKeys : FieldValues("apiKeys"),
     apiURL : FieldValues("apiURL"),
     autoTranslate : FieldValues("autoTranslate"),
     defaultTranslateMode : FieldValues("defaultTranslateMode"),
     defaultTargetLanguage : FieldValues("defaultTargetLanguage"),
     hotkey : FieldValues("hotkey")]

\* The initial useState value of line 235-242.
DefaultValues ==
    [apiKeys |-> "",
     apiURL |-> "https://api.openai.com",
     autoTranslate |-> FALSE,
     defaultTranslateMode |-> "translate",
     defaultTargetLanguage |-> "zh-Hans",
     hotkey |-> EmptyStr]

\* Fields whose widget reports a change and a blur as separate events.
PlainFields == {"apiKeys", "apiURL", "defaultTranslateMode", "defaultTargetLanguage", "hotkey"}

NoOut == [writes |-> <<>>, toasts |-> 0, onSave |-> <<>>, emits |-> <<>>, blurs |-> 0]

Remove(s, i) == [j \in 1..(Len(s) - 1) |-> IF j < i THEN s[j] ELSE s[j + 1]]

----------------------------------------------------------------------------
(* Settings.onBlur, line 274-279 *)

\* Mutant: useCallback(..., []), the callback of the first render is kept.
OnBlurDeps_Never(fn, valuesChanged, v, p) == fn

\* useCallback(..., [values]): a render recomputes the callback only when
\* `values` is a new object; the new callback closes over that render's
\* values and prevValues.
OnBlurDeps(fn, valuesChanged, v, p) ==
    IF valuesChanged THEN [values |-> v, prevValues |-> p] ELSE fn

\* Mutant: the guard without the apiKeys test.
OnBlurGuard_NoKeyTest(fn) == fn.values # fn.prevValues

\* line 275: values.apiKeys && !_.isEqual(values, prevValues)
OnBlurGuard(fn) == fn.values.apiKeys # "" /\ fn.values # fn.prevValues

\* line 276: the argument of utils.setSettings
OnBlurData(fn) == fn.values

\* The synchronous part of onBlur as called through closure fn: the
\* snapshots it hands to setSettings (none or one).
OnBlurWrites(fn) == IF OnBlurGuard(fn) THEN <<OnBlurData(fn)>> ELSE <<>>

\* Each setSettings call of onBlur suspends one onBlur frame at line 276.
OnBlurFrames(fn) == [i \in 1..Len(OnBlurWrites(fn)) |->
                        [fn |-> "onBlur", data |-> OnBlurWrites(fn)[i]]]

----------------------------------------------------------------------------
(* Form: the store behind createForm (components/Form) *)

\* A field widget's onChange: the store takes the value and hands the whole
\* snapshot to onValuesChange.
StoreSet(s, f, v) == [s EXCEPT ![f] = v]

\* Required fields (FormItem required, line 314-335) gate onFinish.
FormValid(s) == s.apiKeys # "" /\ s.apiURL # ""

----------------------------------------------------------------------------
(* Initial state: after the first render and its effects *)

Init ==
    /\ values = DefaultValues
    /\ prevValues = DefaultValues
    /\ loading = FALSE
    /\ store = DefaultValues
    /\ onBlurFn = [values |-> DefaultValues, prevValues |-> DefaultValues]
    /\ loadPending = TRUE
    /\ frames = <<>>
    /\ isRecording = FALSE
    /\ keys = <<>>
    /\ hotKeys = <<>>
    /\ propValue = EmptyStr
    /\ onBlurProp = 0
    /\ docListeners = <<[isRecording |-> FALSE, onBlur |-> 0]>>
    /\ mounted = TRUE
    /\ suppliedMeta = FALSE
    /\ lastOp = "mount"
    /\ out = [NoOut EXCEPT !.emits = <<EmptyStr>>]

----------------------------------------------------------------------------
(* Settings: actions *)

\* line 251-257: getSettings resolves; setValues and setPrevValues land in
\* one render (batched), the form effect of line 247-249 copies values into
\* the store.  A load that resolves after an edit replaces the edit.
LoadResolve(s) ==
    /\ loadPending
    /\ loadPending' = FALSE
    /\ values' = s
    /\ prevValues' = s
    /\ store' = s
    /\ onBlurFn' = OnBlurDeps(onBlurFn, TRUE, s, s)
    /\ lastOp' = "load"
    /\ out' = NoOut
    /\ UNCHANGED <<loading, frames>>
    /\ UNCHANGED recorderVars

\* A plain field reports a value: Form -> onValuesChange -> Settings.onChange
\* (line 259-261) -> setValues(values_) -> render.
ChangeField(f, v) ==
    /\ store' = StoreSet(store, f, v)
    /\ values' = store'
    /\ onBlurFn' = OnBlurDeps(onBlurFn, TRUE, values', prevValues)
    /\ lastOp' = IF f = "apiKeys" THEN "changeApiKeys" ELSE "change"
    /\ out' = NoOut
    /\ UNCHANGED <<prevValues, loading, loadPending, frames>>
    /\ UNCHANGED recorderVars

\* A field loses focus (line 333-348 hand the same onBlur to every field):
\* the current onBlur runs up to its await.
Blur ==
    /\ Len(frames) + Len(OnBlurFrames(onBlurFn)) <= MaxFrames
    /\ frames' = frames \o OnBlurFrames(onBlurFn)
    /\ lastOp' = "blur"
    /\ out' = [NoOut EXCEPT !.writes = OnBlurWrites(onBlurFn)]
    /\ UNCHANGED <<values, prevValues, loading, store, onBlurFn, loadPending>>
    /\ UNCHANGED recorderVars

\* AutoTranslateCheckbox.onChange, line 107-110: props.onChange(checked),
\* then props.onBlur() of the render that built the handler, then the
\* render for the queued setValues.
Toggle ==
    /\ Len(frames) + Len(OnBlurFrames(onBlurFn)) <= MaxFrames
    /\ store' = StoreSet(store, "autoTranslate", ~store.autoTranslate)
    /\ values' = store'
    /\ frames' = frames \o OnBlurFrames(onBlurFn)
    /\ onBlurFn' = OnBlurDeps(onBlurFn, TRUE, values', prevValues)
    /\ lastOp' = "toggle"
    /\ out' = [NoOut EXCEPT !.writes = OnBlurWrites(onBlurFn)]
    /\ UNCHANGED <<prevValues, loading, loadPending>>
    /\ UNCHANGED recorderVars

\* line 276-277: the write of a suspended onBlur resolves; setPrevValues
\* re-renders with the same `values`.
BlurResolve(i) ==
    /\ i \in 1..Len(frames)
    /\ frames[i].fn = "onBlur"
    /\ prevValues' = frames[i].data
    /\ onBlurFn' = OnBlurDeps(onBlurFn, FALSE, values, prevValues')
    /\ frames' = Remove(frames, i)
    /\ lastOp' = "blurResolve"
    /\ out' = NoOut
    /\ UNCHANGED <<values, loading, store, loadPending>>
    /\ UNCHANGED recorderVars

----------------------------------------------------------------------------
(* Settings.onSubmmit, line 263-272 *)

\* Mutant: the write is not awaited, toast and onSave run at once.
OnSubmitStart_NoAwait(data) ==
    [loading |-> TRUE, writes |-> <<data>>, toasts |-> 1, onSave |-> <<data>>]

\* line 264-265: up to the await: setLoading(true), setSettings(data).
OnSubmitStart(data) ==
    [loading |-> TRUE, writes |-> <<data>>, toasts |-> 0, onSave |-> <<>>]

\* line 266-271: after the await: toast, setLoading(false), props.onSave(data).
OnSubmitResume(data) == [loading |-> FALSE, toasts |-> 1, onSave |-> <<data>>]

\* The form passes validation and calls onFinish with the store's snapshot.
Submit ==
    /\ FormValid(store)
    /\ Len(frames) < MaxFrames
    /\ loading' = OnSubmitStart(store).loading
    /\ frames' = frames \o [i \in 1..Len(OnSubmitStart(store).writes) |->
                               [fn |-> "onSubmmit", data |-> OnSubmitStart(store).writes[i]]]
    /\ lastOp' = "submit"
    /\ out' = [NoOut EXCEPT !.writes = OnSubmitStart(store).writes,
                            !.toasts = OnSubmitStart(store).toasts,
                            !.onSave = OnSubmitStart(store).onSave]
    /\ UNCHANGED <<values, prevValues, store, onBlurFn, loadPending>>
    /\ UNCHANGED recorderVars

\* The write of a suspended onSubmmit resolves.
SubmitResolve(i) ==
    /\ i \in 1..Len(frames)
    /\ frames[i].fn = "onSubmmit"
    /\ loading' = OnSubmitResume(frames[i].data).loading
    /\ frames' = Remove(frames, i)
    /\ lastOp' = "submitResolve"
    /\ out' = [NoOut EXCEPT !.toasts = OnSubmitResume(frames[i].data).toasts,
                            !.onSave = OnSubmitResume(frames[i].data).onSave]
    /\ UNCHANGED <<values, prevValues, store, onBlurFn, loadPending>>
    /\ UNCHANGED recorderVars

\* A setSettings promise rejects: the await of line 265 or 276 throws, the
\* rest of the async function is skipped and nothing catches the rejection.
WriteReject(i) ==
    /\ i \in 1..Len(frames)
    /\ frames' = Remove(frames, i)
    /\ lastOp' = IF frames[i].fn = "onSubmmit" THEN "submitReject" ELSE "blurReject"
    /\ out' = NoOut
    /\ UNCHANGED <<values, prevValues, loading, store, onBlurFn, loadPending>>
    /\ UNCHANGED recorderVars

Next ==
    \/ \E s \in ISettings : LoadResolve(s)
    \/ \E f \in PlainFields : \E v \in FieldValues(f) : ChangeField(f, v)
    \/ Blur
    \/ Toggle
    \/ \E i \in 1..MaxFrames : BlurResolve(i)
    \/ Submit
    \/ \E i \in 1..MaxFrames : SubmitResolve(i)
    \/ \E i \in 1..MaxFrames : WriteReject(i)

Spec == Init /\ [][Next]_vars

----------------------------------------------------------------------------
(* HotkeyRecorder, line 154-223 *)

\* Key names useRecordHotkeys reports for a key press.
KeyNames == {<<"ctrl">>, <<"k">>, <<"meta">>, <<"Meta">>, <<"-">>}

\* Hotkey strings the settings storage may hold: "", "ctrl+k", "ctrl-k",
\* "ctrl + k", "meta+k".
StoredHotkeys ==
    {EmptyStr,
     <<"ctrl", "+", "k">>,
     <<"ctrl", "-", "k">>,
     <<"ctrl", " ", "+", " ", "k">>,
     <<"meta", "+", "k">>}

\* line 163-167: replace(/-/g, '+').split('+').map(trim).filter(Boolean)
ParseValue(v) ==
    LET parts == Split(ReplaceAll(v, "-", "+"), "+")
        trimmed == [i \in 1..Len(parts) |-> Trim(parts[i])]
    IN SelectSeq(trimmed, LAMBDA k : k # EmptyStr)

\* line 160-170: the effect on [props.value]; hk is the hotKeys state the
\* render before it left.
ValueEffect(hk, oldValue, newValue) ==
    IF newValue # oldValue /\ newValue # EmptyStr THEN ParseValue(newValue) ELSE hk

\* Mutant: the filter without toLowerCase.
FilterMeta_CaseSensitive(ks) == SelectSeq(ks, LAMBDA k : k # <<"meta">>)

\* line 175: keys_.filter((k) => k.toLowerCase() !== 'meta')
FilterMeta(ks) == SelectSeq(ks, LAMBDA k : ToLowerCase(k) # <<"meta">>)

\* line 172-179: the effect on [keys]: the hotKeys it sets and the values it
\* hands to props.onChange.
KeysEffect(ks, hk) ==
    IF Len(ks) > 0
    THEN [hotKeys |-> FilterMeta(ks), emits |-> <<Join(FilterMeta(ks), <<"+">>)>>]
    ELSE [hotKeys |-> hk, emits |-> <<>>]

\* Mutant: the committed value joined as the display of line 216 joins it.
IdleEffect_DisplayJoin(rec, hk) ==
    IF ~rec THEN <<Join(hk, <<" ", "+", " ">>)>> ELSE <<>>

\* line 181-185: the effect on [isRecording]: what it hands to props.onChange.
IdleEffect(rec, hk) == IF ~rec THEN <<Join(hk, <<"+">>)>> ELSE <<>>

\* Mutant: the effect without its cleanup.
ListenerEffect_NoCleanup(ls, rec, blurFn) ==
    ls \o <<[isRecording |-> rec, onBlur |-> blurFn]>>

\* line 187-198: the effect on [isRecording, props.onBlur]: its cleanup takes
\* the listener of the previous run off document, then it registers
\* stopRecording of this render.
ListenerEffect(ls, rec, blurFn) ==
    SubSeq(ls, 1, Len(ls) - 1) \o <<[isRecording |-> rec, onBlur |-> blurFn]>>

\* line 195-197 at unmount: the cleanup alone.
ListenerCleanup(ls) == SubSeq(ls, 1, Len(ls) - 1)

\* line 188-193: stopRecording as registered: whether it calls stop() and
\* props.onBlur().
StopRecording(l) == l.isRecording

\* useRecordHotkeys: the keydown handler adds the key to a new Set.
AddKey(ks, k) == IF \E i \in 1..Len(ks) : ks[i] = k THEN ks ELSE Append(ks, k)

\* The form hands an emitted value back as props.value; Settings.onChange
\* makes a new `values`, hence a new onBlur (line 259-261, 274-279).
NextOnBlurProp(emits) == IF emits # <<>> THEN 1 - onBlurProp ELSE onBlurProp
NextPropValue(emits) == IF emits # <<>> THEN emits[Len(emits)] ELSE propValue

HasMeta(v) == \E i \in 1..Len(ParseValue(v)) : ToLowerCase(ParseValue(v)[i]) = <<"meta">>

\* getSettings resolves with a stored hotkey: form.setFieldsValue (line 248)
\* hands it to the recorder as props.value, with a new onBlur.  (Under
\* RecorderSpec the Settings side is reduced to what the recorder sees of it:
\* props.value and the identity of props.onBlur.)
SupplyValue(v) ==
    /\ mounted
    /\ loadPending
    /\ loadPending' = FALSE
    /\ propValue' = v
    /\ hotKeys' = ValueEffect(hotKeys, propValue, v)
    /\ onBlurProp' = 1 - onBlurProp
    /\ docListeners' = ListenerEffect(docListeners, isRecording, onBlurProp')
    /\ suppliedMeta' = (suppliedMeta \/ HasMeta(v))
    /\ lastOp' = "supply"
    /\ out' = NoOut
    /\ UNCHANGED <<isRecording, keys, mounted>>
    /\ UNCHANGED <<values, prevValues, loading, store, onBlurFn, frames>>

\* Settings re-renders with a new `values` (another field was edited): the
\* recorder gets a new props.onBlur.
ParentRender ==
    /\ mounted
    /\ onBlurProp' = 1 - onBlurProp
    /\ docListeners' = ListenerEffect(docListeners, isRecording, onBlurProp')
    /\ lastOp' = "render"
    /\ out' = NoOut
    /\ UNCHANGED <<isRecording, keys, hotKeys, propValue, mounted, suppliedMeta>>
    /\ UNCHANGED settingsVars

\* A key press while recording (the library's keydown listener), then the
\* effect on [keys], then the render with the emitted value as props.value.
KeyDown(k) ==
    /\ mounted
    /\ isRecording
    /\ Len(AddKey(keys, k)) <= MaxKeys
    /\ keys' = AddKey(keys, k)
    /\ LET e == KeysEffect(keys', hotKeys)
       IN /\ out' = [NoOut EXCEPT !.emits = e.emits]
          /\ propValue' = NextPropValue(e.emits)
          /\ hotKeys' = ValueEffect(e.hotKeys, propValue, propValue')
          /\ onBlurProp' = NextOnBlurProp(e.emits)
    /\ docListeners' = ListenerEffect(docListeners, isRecording, onBlurProp')
    /\ lastOp' = "keydown"
    /\ UNCHANGED <<isRecording, mounted, suppliedMeta>>
    /\ UNCHANGED settingsVars

\* What follows a render in which isRecording has become rec: the effect on
\* [isRecording], the listener effect, the render with the emitted value.
AfterRecordingChange(rec, blurs) ==
    LET emits == IdleEffect(rec, hotKeys)
    IN /\ isRecording' = rec
       /\ out' = [NoOut EXCEPT !.emits = emits, !.blurs = blurs]
       /\ propValue' = NextPropValue(emits)
       /\ hotKeys' = ValueEffect(hotKeys, propValue, propValue')
       /\ onBlurProp' = NextOnBlurProp(emits)
       /\ docListeners' = ListenerEffect(docListeners, rec, onBlurProp')

\* line 203-211: a click on the capture surface; stopPropagation keeps it
\* from the document listeners.  start() empties keys.
ClickSurface ==
    /\ mounted
    /\ IF ~isRecording
       THEN /\ keys' = <<>>
            /\ AfterRecordingChange(TRUE, 0)
            /\ lastOp' = "start"
       ELSE /\ keys' = keys
            /\ AfterRecordingChange(FALSE, 0)
            /\ lastOp' = "stopSurface"
    /\ UNCHANGED <<mounted, suppliedMeta>>
    /\ UNCHANGED settingsVars

\* A click elsewhere: every listener registered on document runs.
ClickOutside ==
    /\ mounted
    /\ LET active == SelectSeq(docListeners, StopRecording)
       IN IF active # <<>>
          THEN /\ AfterRecordingChange(FALSE, Len(active))
               /\ lastOp' = "stopOutside"
          ELSE /\ lastOp' = "clickIdle"
               /\ out' = NoOut
               /\ UNCHANGED <<isRecording, hotKeys, propValue, onBlurProp, docListeners>>
    /\ UNCHANGED <<keys, mounted, suppliedMeta>>
    /\ UNCHANGED settingsVars

\* The component unmounts: the cleanup of the listener effect runs.
Unmount ==
    /\ mounted
    /\ mounted' = FALSE
    /\ docListeners' = ListenerCleanup(docListeners)
    /\ lastOp' = "unmount"
    /\ out' = NoOut
    /\ UNCHANGED <<isRecording, keys, hotKeys, propValue, onBlurProp, suppliedMeta>>
    /\ UNCHANGED settingsVars

RecorderNext ==
    \/ \E v \in StoredHotkeys : SupplyValue(v)
    \/ ParentRender
    \/ \E k \in KeyNames : KeyDown(k)
    \/ ClickSurface
    \/ ClickOutside
    \/ Unmount

RecorderSpec == Init /\ [][RecorderNext]_vars

----------------------------------------------------------------------------
(* Properties of Settings, checked under Spec *)

\* C1: with a non-empty API key, every toggle of the auto-translate checkbox
\* makes one setSettings call, and the snapshot written is the one after the
\* toggle (it carries the new autoTranslate).
C1_ToggleWritesNewSnapshot ==
    [][(Toggle /\ values.apiKeys # "") => out'.writes = <<values'>>]_vars

\* C2: a blur makes no setSettings call while the form snapshot equals the
\* baseline last persisted or loaded (prevValues, which the load and every
\* completed autosave set).
C2_NoWriteWhenClean ==
    [][(Blur /\ values = prevValues) => out'.writes = <<>>]_vars

\* C3: a blur (of a plain field or of the checkbox) while the snapshot's
\* apiKeys is empty makes no setSettings call, and every snapshot an onBlur
\* has handed to setSettings has a non-empty apiKeys.
C3_NoWriteWithEmptyKey ==
    /\ [][((Blur \/ Toggle) /\ values.apiKeys = "")
            => (out'.writes = <<>> /\ frames' = frames)]_vars
    /\ [](\A i \in 1..Len(frames) :
            frames[i].fn = "onBlur" => frames[i].data.apiKeys # "")

\* A blur ran on a dirty form whose API key had been emptied, and wrote nothing.
C3_Witness ==
    /\ lastOp = "blur"
    /\ values.apiKeys = ""
    /\ prevValues.apiKeys # ""
    /\ out.writes = <<>>

C5_SubmitSavesOnce ==
    /\ [][Submit
            => (/\ out'.writes = <<values>>
                /\ frames' = Append(frames, [fn |-> "onSubmmit", data |-> values])
                /\ out'.toasts = 0
                /\ out'.onSave = <<>>)]_vars
    /\ [][lastOp' = "submitResolve"
            => \E i \in 1..Len(frames) :
                  /\ frames[i].fn = "onSubmmit"
                  /\ frames' = Remove(frames, i)
                  /\ out'.toasts = 1
                  /\ out'.onSave = <<frames[i].data>>]_vars
    /\ []((out.toasts # 0 \/ out.onSave # <<>>) => lastOp = "submitResolve")

\* The write of a submit resolved: one toast, one onSave with valid data.
C5_Witness ==
    /\ lastOp = "submitResolve"
    /\ out.toasts = 1
    /\ Len(out.onSave) = 1
    /\ FormValid(out.onSave[1])

\* C6: when the setSettings attempt of a submit has finished, resolved or
\* rejected, loading is false again.
C6_LoadingCleared ==
    lastOp \in {"submitResolve", "submitReject"} => loading = FALSE

----------------------------------------------------------------------------
(* Properties of HotkeyRecorder, checked under RecorderSpec *)

\* The segments of v between "+" signs, none of them "meta" in any case.
MetaFree(v) ==
    \A j \in 1..Len(Split(v, "+")) : ToLowerCase(Split(v, "+")[j]) # <<"meta">>

\* C7 as stated: a recording session that ends with no key captured emits
\* the empty string.
C7_EmptyWhenNoKeys ==
    [][(isRecording /\ ~isRecording' /\ keys = <<>>) => out'.emits = <<EmptyStr>>]_vars

\* C7 as amended: a recording session that ends with no key captured emits
\* the "+"-join of the keys displayed at that moment (seeded from the stored
\* value or left by an earlier recording).
C7_DisplayedWhenNoKeys ==
    [][(isRecording /\ ~isRecording' /\ keys = <<>>)
         => out'.emits = <<Join(hotKeys, <<"+">>)>>]_vars

\* A session with no key captured ended and a non-empty hotkey was emitted.
C7_Witness ==
    /\ lastOp \in {"stopSurface", "stopOutside"}
    /\ keys = <<>>
    /\ Len(out.emits) = 1
    /\ out.emits[1] # EmptyStr

\* C8 as stated: no value the recorder emits has a "meta" segment.
C8_NeverMeta ==
    \A i \in 1..Len(out.emits) : MetaFree(out.emits[i])

\* C8 as amended: a value emitted for captured keys has no "meta" segment,
\* and neither has any emitted value unless a value supplied from outside
\* had one.
C8_MetaOnlyFromSuppliedValue ==
    \A i \in 1..Len(out.emits) :
        (lastOp = "keydown" \/ ~suppliedMeta) => MetaFree(out.emits[i])

\* A "meta" key and another key are captured, the emitted value is the join
\* of the others, and a stored value with a "meta" segment had been supplied.
C8_Witness ==
    /\ lastOp = "keydown"
    /\ \E i \in 1..Len(keys) : ToLowerCase(keys[i]) = <<"meta">>
    /\ \E i \in 1..Len(keys) : ToLowerCase(keys[i]) # <<"meta">>
    /\ out.emits = <<Join(FilterMeta(keys), <<"+">>)>>
    /\ suppliedMeta

\* C9: every transition from recording to idle emits the displayed keys
\* joined with "+" and signals onBlur exactly once; a click outside while
\* idle signals no blur and changes nothing of the recorder.
C9_StopEmitsAndBlursOnce ==
    /\ [][(isRecording /\ ~isRecording')
            => (out'.emits = <<Join(hotKeys, <<"+">>)>> /\ out'.blurs = 1)]_vars
    /\ [][(ClickOutside /\ ~isRecording)
            => (out'.blurs = 0 /\ out'.emits = <<>> /\ UNCHANGED recorderVars)]_vars

\* C10 as stated: a document click listener is registered exactly while the
\* recorder is mounted and recording.
C10_ListenerOnlyWhileRecording ==
    Len(docListeners) = (IF mounted /\ isRecording THEN 1 ELSE 0)

\* C10 as amended: exactly one document click listener is registered while
\* the recorder is mounted, idle or recording, and it closes over the current
\* isRecording and onBlur; none is registered after unmount.
C10_OneListenerWhileMounted ==
    /\ Len(docListeners) = (IF mounted THEN 1 ELSE 0)
    /\ mounted => docListeners[1] = [isRecording |-> isRecording, onBlur |-> onBlurProp]

\* Recording has stopped, the recorder is idle and a listener is registered.
C10_Witness ==
    /\ lastOp \in {"stopSurface", "stopOutside"}
    /\ mounted
    /\ ~isRecording
    /\ Len(docListeners) = 1

====
